---------------------------- MODULE Spec2Model ----------------------------
(***************************************************************************)
(* Model of src/backend/main.py: the cost-minimizing speed optimizer       *)
(* (OtimizadorCombustivel.otimizar_velocidade) and the geodata pipeline    *)
(* (MapaService.geocodificar_endereco, MapaService.calcular_rota, the      *)
(* /calcular-rota and /otimizar-com-mapa handlers).                        *)
(*                                                                         *)
(* Numbers.  The code computes in binary floating point.  The model        *)
(* computes the same expressions over exact rationals <<n, d>> (d > 0, in  *)
(* lowest terms), so that comparisons, the argmin and the rounding of the  *)
(* returned values are computed, not assumed.  Products are kept below     *)
(* 2^31 by reducing before multiplying and by comparing fractions with     *)
(* continued fractions instead of cross products.                          *)
(***************************************************************************)
EXTENDS Integers, Sequences, FiniteSets, TLC

VARIABLES
    entrada,      \* arguments of the otimizar_velocidade call, or NoValue
    resultado,    \* the dict otimizar_velocidade returned, or NoValue
    chave_api,    \* whether OPENROUTE_API_KEY is configured
    geocoding,    \* a geocodificar_endereco call: its address, the provider's
                  \* answer and the call's outcome; or NoValue
    roteamento,   \* a MapaService.calcular_rota call: its arguments, the
                  \* provider's answer and the call's outcome; or NoValue
    \* one /otimizar-com-mapa request
    pedido,           \* the OtimizacaoMapaRequest, or NoValue
    pc,               \* the step the request is about to run
    origem_geo,       \* calcular_rota's local origem_geo, or NoValue
    destino_geo,      \* calcular_rota's local destino_geo, or NoValue
    distancia_direta, \* calcular_rota's local distancia_direta, or NoValue
    rota_calculada,   \* otimizar_com_mapa's local rota_calculada, or NoValue
    resposta,         \* what the caller of otimizar_com_mapa receives, or NoValue
    banco,            \* the rows of table otimizacoes written by the request
    levantado,        \* history: the exception as the failing component raised it
    passos            \* history: the steps run so far and whether each succeeded

vars_pedido == <<pedido, pc, origem_geo, destino_geo, distancia_direta,
                 rota_calculada, resposta, banco, levantado, passos>>

vars == <<entrada, resultado, chave_api, geocoding, roteamento, pedido, pc, origem_geo,
          destino_geo, distancia_direta, rota_calculada, resposta, banco,
          levantado, passos>>

\* Python's None, as a record so that it compares with the dicts it stands in for
NoValue == [none |-> TRUE]

-----------------------------------------------------------------------------
(* Exact rational arithmetic standing for the float expressions.            *)

Abs(x) == IF x < 0 THEN -x ELSE x

RECURSIVE GCD(_, _)
GCD(a, b) == IF b = 0 THEN Abs(a) ELSE GCD(b, a % b)

Rat(n, d) ==
    LET s == IF d < 0 THEN -1 ELSE 1
        g == GCD(Abs(n), Abs(d))
    IN  <<(s * n) \div g, (s * d) \div g>>

RInt(n) == <<n, 1>>

RMul(x, y) ==
    LET g1 == GCD(Abs(x[1]), y[2])
        g2 == GCD(Abs(y[1]), x[2])
    IN  Rat((x[1] \div g1) * (y[1] \div g2), (x[2] \div g2) * (y[2] \div g1))

RDiv(x, y) == RMul(x, Rat(y[2], y[1]))

RAdd(x, y) ==
    LET g == GCD(x[2], y[2])
    IN  Rat(x[1] * (y[2] \div g) + y[1] * (x[2] \div g), (x[2] \div g) * y[2])

RNeg(x) == <<-x[1], x[2]>>

RSub(x, y) == RAdd(x, RNeg(y))

\* -1, 0, 1 as a/b is below, equal to or above c/d (b, d > 0); \div rounds down
\* and % is non-negative, so the fractional parts compared are in [0, 1).
RECURSIVE Cmp(_, _, _, _)
Cmp(a, b, c, d) ==
    LET q1 == a \div b
        q2 == c \div d
        r1 == a % b
        r2 == c % d
    IN  IF q1 # q2 THEN (IF q1 < q2 THEN -1 ELSE 1)
        ELSE IF r1 = 0 /\ r2 = 0 THEN 0
        ELSE IF r1 = 0 THEN -1
        ELSE IF r2 = 0 THEN 1
        ELSE Cmp(d, r2, b, r1)

RLt(x, y) == Cmp(x[1], x[2], y[1], y[2]) < 0
RLe(x, y) == Cmp(x[1], x[2], y[1], y[2]) <= 0
RGt(x, y) == RLt(y, x)
RGe(x, y) == RLe(y, x)
RMax(x, y) == IF RGt(y, x) THEN y ELSE x

\* round(x, casas): the integer nearest to x * 10^casas, a tie going to the
\* even one (Python's rounding rule); the result is in units of 10^-casas.
Pow10(casas) == CASE casas = 0 -> 1 [] casas = 1 -> 10 [] casas = 2 -> 100 [] casas = 3 -> 1000

\* <<q, r>> with n * fr = q * den + r and 0 <= r < den, by n additions modulo
\* den (0 <= fr < den), so that no product is formed
RECURSIVE VezesMod(_, _, _)
VezesMod(fr, den, n) ==
    IF n = 0 THEN <<0, 0>>
    ELSE LET t == VezesMod(fr, den, n - 1)
         IN  IF t[2] >= den - fr THEN <<t[1] + 1, t[2] - (den - fr)>>
             ELSE <<t[1], t[2] + fr>>

\* <<q, r>> with fr * 10^casas = q * den + r and 0 <= r < den, a decimal digit
\* at a time (0 <= fr < den)
RECURSIVE Digitos(_, _, _)
Digitos(fr, den, casas) ==
    IF casas = 0 THEN <<0, fr>>
    ELSE LET p == Digitos(fr, den, casas - 1)
             d == VezesMod(p[2], den, 10)
         IN  <<p[1] * 10 + d[1], d[2]>>

Round(x, casas) ==
    LET ip == x[1] \div x[2]
        qr == Digitos(x[1] % x[2], x[2], casas)
        lo == ip * Pow10(casas) + qr[1]
        r  == qr[2]
    IN  IF r < x[2] - r THEN lo
        ELSE IF r > x[2] - r THEN lo + 1
        ELSE IF lo % 2 = 0 THEN lo ELSE lo + 1

-----------------------------------------------------------------------------
(* OtimizadorCombustivel.otimizar_velocidade                                *)

\* FaixaVelocidade with every boundary distance put in the lower range
FaixaVelocidadeInclusiva(distancia_km) ==
    IF RLe(distancia_km, RInt(1)) THEN <<15, 30>>
    ELSE IF RLe(distancia_km, RInt(5)) THEN <<20, 50>>
    ELSE IF RLe(distancia_km, RInt(15)) THEN <<30, 70>>
    ELSE IF RLe(distancia_km, RInt(50)) THEN <<50, 90>>
    ELSE <<60, 110>>

\* v_min, v_max of the distance's range
FaixaVelocidade(distancia_km) ==
    IF RLt(distancia_km, RInt(1)) THEN <<15, 30>>
    ELSE IF RLt(distancia_km, RInt(5)) THEN <<20, 50>>
    ELSE IF RLt(distancia_km, RInt(15)) THEN <<30, 70>>
    ELSE IF RLt(distancia_km, RInt(50)) THEN <<50, 90>>
    ELSE <<60, 110>>

\* the number of points of np.linspace(v_min, v_max, 50)
NumPontos == 50

\* the positions of velocidades, custos and dados_grafico, counted from 1
\* (position k is Python's index k - 1)
Indices == 1 .. NumPontos

\* the k-th speed of np.linspace: v_min + (k - 1) * (v_max - v_min) / 49, the
\* last one being v_max
Velocidade(v_min, v_max, k) ==
    Rat(v_min * (NumPontos - 1) + (k - 1) * (v_max - v_min), NumPontos - 1)

\* a list built by a comprehension, held as a tuple
Lista(f) == << >> \o f

\* FatorUrbano with the high-speed penalty starting at 70 km/h itself
FatorUrbanoInclusivo(v) ==
    IF RLt(v, RInt(30)) THEN Rat(14, 10)
    ELSE IF RLt(v, RInt(50)) THEN Rat(12, 10)
    ELSE IF RGe(v, RInt(70)) THEN Rat(13, 10)
    ELSE RInt(1)

FatorUrbano(v) ==
    IF RLt(v, RInt(30)) THEN Rat(14, 10)
    ELSE IF RLt(v, RInt(50)) THEN Rat(12, 10)
    ELSE IF RGt(v, RInt(70)) THEN Rat(13, 10)
    ELSE RInt(1)

\* max(distancia_km / consumo_base_kmh, 0.05)
ConsumoBase(distancia_km, consumo_base_kmh) ==
    RMax(RDiv(distancia_km, consumo_base_kmh), Rat(5, 100))

\* TempoParadas charging the stops at 40 km/h and above instead of below
TempoParadasAcima(distancia_km, v) ==
    IF RGe(v, RInt(40)) THEN RMul(distancia_km, Rat(2, 100)) ELSE RInt(0)

\* tempo_paradas: 0.02 h per km below 40 km/h
TempoParadas(distancia_km, v) ==
    IF RLt(v, RInt(40)) THEN RMul(distancia_km, Rat(2, 100)) ELSE RInt(0)

\* CustoCombustivel dividing the litres by the price
CustoCombustivelPorPreco(consumo_ajustado, preco_combustivel) ==
    RDiv(consumo_ajustado, preco_combustivel)

\* custo_combustivel = consumo_ajustado * preco_combustivel
CustoCombustivel(consumo_ajustado, preco_combustivel) ==
    RMul(consumo_ajustado, preco_combustivel)

\* one pass of the loop over velocidades: the unrounded costs at speed v
PontoCusto(e, v) ==
    LET tempo_viagem      == RDiv(e.distancia_km, v)
        consumo_ajustado  == RMul(ConsumoBase(e.distancia_km, e.consumo_base_kmh),
                                  FatorUrbano(v))
        custo_combustivel == CustoCombustivel(consumo_ajustado, e.preco_combustivel)
        tempo_total       == RAdd(tempo_viagem, TempoParadas(e.distancia_km, v))
        custo_tempo       == RMul(tempo_total, e.custo_motorista_hora)
    IN  [ velocidade        |-> v,
          consumo           |-> consumo_ajustado,
          custo_combustivel |-> custo_combustivel,
          custo_tempo       |-> custo_tempo,
          tempo_total       |-> tempo_total,
          custo_total       |-> RAdd(custo_combustivel, custo_tempo) ]

\* the factor chosen again for the optimum
FatorOtimo(velocidade_otima) ==
    IF RLt(velocidade_otima, RInt(30)) THEN Rat(14, 10)
    ELSE IF RLt(velocidade_otima, RInt(50)) THEN Rat(12, 10)
    ELSE IF RGt(velocidade_otima, RInt(70)) THEN Rat(13, 10)
    ELSE RInt(1)

\* PontoOtimo with the reference's stop time (0.01 h per km) in place of 0.02
PontoOtimoParadasRef(e, velocidade_otima) ==
    LET tempo_otimo         == RDiv(e.distancia_km, velocidade_otima)
        tempo_paradas_otimo == IF RLt(velocidade_otima, RInt(40))
                               THEN RMul(e.distancia_km, Rat(1, 100)) ELSE RInt(0)
        tempo_total_otimo   == RAdd(tempo_otimo, tempo_paradas_otimo)
        consumo_otimo       == RMul(ConsumoBase(e.distancia_km, e.consumo_base_kmh),
                                    FatorOtimo(velocidade_otima))
    IN  [ consumo           |-> consumo_otimo,
          custo_combustivel |-> RMul(consumo_otimo, e.preco_combustivel),
          custo_tempo       |-> RMul(tempo_total_otimo, e.custo_motorista_hora),
          tempo_total       |-> tempo_total_otimo ]

\* the costs at the optimum, computed again from velocidade_otima
PontoOtimo(e, velocidade_otima) ==
    LET tempo_otimo         == RDiv(e.distancia_km, velocidade_otima)
        tempo_paradas_otimo == IF RLt(velocidade_otima, RInt(40))
                               THEN RMul(e.distancia_km, Rat(2, 100)) ELSE RInt(0)
        tempo_total_otimo   == RAdd(tempo_otimo, tempo_paradas_otimo)
        consumo_otimo       == RMul(ConsumoBase(e.distancia_km, e.consumo_base_kmh),
                                    FatorOtimo(velocidade_otima))
    IN  [ consumo           |-> consumo_otimo,
          custo_combustivel |-> RMul(consumo_otimo, e.preco_combustivel),
          custo_tempo       |-> RMul(tempo_total_otimo, e.custo_motorista_hora),
          tempo_total       |-> tempo_total_otimo ]

\* the entry appended to dados_grafico: every value rounded on its own
DadosGrafico(pt) ==
    [ velocidade        |-> Round(pt.velocidade, 1),
      custo_total       |-> Round(pt.custo_total, 2),
      custo_combustivel |-> Round(pt.custo_combustivel, 2),
      custo_tempo       |-> Round(pt.custo_tempo, 2),
      tempo_viagem      |-> Round(pt.tempo_total, 3) ]

\* ArgMin keeping the last index holding the least value
ArgMinUltimo(custos) ==
    LET minimos == {i \in Indices : \A j \in Indices : RLe(custos[i], custos[j])}
    IN  CHOOSE i \in minimos : \A j \in minimos : i >= j

\* np.argmin: the first index holding the least value
ArgMin(custos) ==
    LET minimos == {i \in Indices : \A j \in Indices : RLe(custos[i], custos[j])}
    IN  CHOOSE i \in minimos : \A j \in minimos : i <= j

Deltas == <<-10, -5, 5, 10>>

\* DentroDaFaixa testing the lower limit only
DentroDaFaixaSoMinimo(v_min, v_max, v_test) == RLe(RInt(v_min), v_test)

\* v_min <= v_test <= v_max
DentroDaFaixa(v_min, v_max, v_test) ==
    RLe(RInt(v_min), v_test) /\ RLe(v_test, RInt(v_max))

\* one pass of the sensitivity loop: <<entry>> when v_test is in range, else <<>>
Sensibilidade(e, v_min, v_max, velocidade_otima, custo_minimo, delta) ==
    LET v_test == RAdd(velocidade_otima, RInt(delta))
    IN  IF DentroDaFaixa(v_min, v_max, v_test)
        THEN LET t_test == RDiv(e.distancia_km, v_test)
                 c_test == RAdd(RMul(RMul(ConsumoBase(e.distancia_km, e.consumo_base_kmh),
                                          Rat(12, 10)),
                                     e.preco_combustivel),
                                RMul(t_test, e.custo_motorista_hora))
                 diff   == RSub(c_test, custo_minimo)
             IN  << [ variacao_velocidade |-> delta,
                      nova_velocidade     |-> Round(v_test, 1),
                      aumento_custo       |-> Round(diff, 2),
                      \* a float division: by zero it yields inf or nan, no
                      \* exception; the percentage to one decimal is the
                      \* quotient to three
                      aumento_percentual  |->
                          IF custo_minimo[1] = 0
                          THEN (IF diff[1] = 0 THEN "nan" ELSE "inf")
                          ELSE Round(RDiv(diff, custo_minimo), 3) ] >>
        ELSE << >>

\* the dict returned by otimizar_velocidade for the arguments e; money in
\* cents, speeds in tenths of km/h, hours in thousandths (hundredths in cenario)
OtimizarVelocidade(e) ==
    LET faixa   == FaixaVelocidade(e.distancia_km)
        v_min   == faixa[1]
        v_max   == faixa[2]
        pontos  == Lista([i \in Indices |-> PontoCusto(e, Velocidade(v_min, v_max, i))])
        custos  == Lista([i \in Indices |-> pontos[i].custo_total])
        idx_otimo        == ArgMin(custos)
        velocidade_otima == Velocidade(v_min, v_max, idx_otimo)
        custo_minimo     == custos[idx_otimo]
        \* reference: 40 km/h, factor 1.2, 0.01 h of stops per km
        consumo_ref == RMul(ConsumoBase(e.distancia_km, e.consumo_base_kmh), Rat(12, 10))
        tempo_total_ref == RAdd(RDiv(e.distancia_km, RInt(40)),
                                RMul(e.distancia_km, Rat(1, 100)))
        custo_ref == RAdd(RMul(consumo_ref, e.preco_combustivel),
                          RMul(tempo_total_ref, e.custo_motorista_hora))
        economia  == RSub(custo_ref, custo_minimo)
        \* economia / custo_ref: economia_percentual is 100 times this, so
        \* it is compared with 5/100 and rounded to three decimals where the
        \* code compares the percentage with 5 and rounds it to one
        economia_relativa ==
            IF RGt(custo_ref, RInt(0)) THEN RDiv(economia, custo_ref) ELSE RInt(0)
        otimo == PontoOtimo(e, velocidade_otima)
        sens(k) == Sensibilidade(e, v_min, v_max, velocidade_otima, custo_minimo, Deltas[k])
    IN  [ velocidade_otima    |-> Round(velocidade_otima, 1),
          custo_total         |-> Round(custo_minimo, 2),
          economia_vs_40kmh   |-> Round(economia, 2),
          economia_percentual |-> Round(economia_relativa, 3),
          grafico_dados       |-> Lista([i \in Indices |-> DadosGrafico(pontos[i])]),
          analise |-> [
              justificativa |->
                  IF RGt(economia_relativa, Rat(5, 100)) THEN "economia significativa"
                  ELSE IF RGt(economia_relativa, RInt(0)) THEN "economia moderada"
                  ELSE "referencia proxima do otimo",
              ponto_otimo |-> [
                  velocidade        |-> Round(velocidade_otima, 1),
                  custo_total       |-> Round(custo_minimo, 2),
                  custo_combustivel |-> Round(otimo.custo_combustivel, 2),
                  custo_tempo       |-> Round(otimo.custo_tempo, 2),
                  tempo_viagem      |-> Round(otimo.tempo_total, 3) ],
              sensibilidade |-> sens(1) \o sens(2) \o sens(3) \o sens(4),
              metodo        |-> NumPontos,
              restricoes    |-> <<v_min, v_max>> ],
          cenario |-> [
              distancia_km            |-> e.distancia_km,
              tempo_viagem_horas      |-> Round(otimo.tempo_total, 2),
              consumo_estimado_litros |-> Round(otimo.consumo, 2),
              tipo_veiculo            |-> e.tipo_veiculo,
              tipo_rota               |-> "urbana",
              custo_combustivel       |-> Round(otimo.custo_combustivel, 2),
              custo_tempo             |-> Round(otimo.custo_tempo, 2),
              faixa_velocidade        |-> <<v_min, v_max>> ] ]

-----------------------------------------------------------------------------
(* Values shared by the map service and the handlers.                       *)

\* a call's outcome: the value returned, or the exception raised
Retorno(valor) == [tipo |-> "retorno", valor |-> valor]
Excecao(exc)   == [tipo |-> "excecao", exc |-> exc]

\* fastapi's HTTPException; detail is a dict (a record holding "error") or a
\* string (held as [texto |-> ...])
HTTPException(status_code, detail) ==
    [classe |-> "HTTPException", status_code |-> status_code, detail |-> detail]

Texto(t) == [texto |-> t]

EhDict(detail) == "error" \in DOMAIN detail

\* dict.get(chave, padrao)
Get(d, chave, padrao) == IF chave \in DOMAIN d THEN d[chave] ELSE padrao

\* Addresses: the text, len(endereco.strip()) and whether "422:" occurs in it
Enderecos ==
    { [texto |-> "Av Paulista 1000, Sao Paulo - SP", comprimento |-> 32, contem422 |-> FALSE],
      [texto |-> "Rua A", comprimento |-> 5, contem422 |-> FALSE],
      [texto |-> " SP  ", comprimento |-> 2, contem422 |-> FALSE],
      [texto |-> "Caixa Postal 422: Centro, Manaus", comprimento |-> 32, contem422 |-> TRUE] }

\* Coordinates in millionths of a degree.  B lies at longitude
\* -69.62260906765704, the double for which distancia_haversine(A, B) is
\* exactly 2000.0; EQ has latitude 0.0; LUA (Luanda) has a latitude inside
\* the bounding box and a longitude outside it.
SP  == [latitude |-> -23550520, longitude |-> -46633309]
A   == [latitude |-> -23460430, longitude |-> -50000000]
B   == [latitude |-> -23460430, longitude |-> -69622609]
LUA == [latitude |->  -8839000, longitude |->  13289400]
EQ  == [latitude |->         0, longitude |-> -50000000]

Pontos == {SP, A, B, LUA, EQ}

-----------------------------------------------------------------------------
(* MapaService.geocodificar_endereco                                        *)

\* confidence is held in units of 0.00001: the thresholds 0.5 and 0.7
ConfiancaMinima == 50000
ConfiancaBoa    == 70000

\* ConfiancaBaixa rejecting the threshold itself
ConfiancaBaixaInclusiva(confidence) == confidence <= ConfiancaMinima

ConfiancaBaixa(confidence) == confidence < ConfiancaMinima

\* DentroDoBrasil without the test of the longitude
DentroDoBrasilSoLatitude(latitude, longitude) ==
    -35000000 <= latitude /\ latitude <= 5000000

\* -35.0 <= latitude <= 5.0 and -75.0 <= longitude <= -30.0
DentroDoBrasil(latitude, longitude) ==
    /\ -35000000 <= latitude /\ latitude <= 5000000
    /\ -75000000 <= longitude /\ longitude <= -30000000

\* MuitoCurto taking an address of five characters for short as well
MuitoCurtoInclusivo(endereco) == endereco.comprimento <= 5

\* "len(endereco.strip()) < 5"
MuitoCurto(endereco) == endereco.comprimento < 5

\* Aproximada marking confidence 0.7 as well
AproximadaInclusiva(confidence, match_type) ==
    confidence <= ConfiancaBoa \/ match_type = "fallback"

\* "confidence < 0.7 or match_type == 'fallback'"
Aproximada(confidence, match_type) ==
    confidence < ConfiancaBoa \/ match_type = "fallback"

\* the return value when no API key is configured
GeocodingSemApi(endereco) ==
    [ endereco_formatado |-> [base |-> endereco.texto, sufixo |-> " (sem API - Sao Paulo)"],
      latitude  |-> SP.latitude,
      longitude |-> SP.longitude,
      cidade    |-> "Sao Paulo",
      estado    |-> "SP" ]

ErroEnderecoCurto(endereco) ==
    HTTPException(400,
        [ error |-> "invalid_address_format",
          message |-> "Endereco muito curto ou incompleto",
          endereco_original |-> endereco,
          sugestao |-> "Forneca um endereco completo com pelo menos rua e cidade" ])

ErroForaDoBrasil(endereco, latitude, longitude) ==
    HTTPException(422,
        [ error |-> "geocoding_outside_brazil",
          message |-> "Endereco encontrado fora do territorio brasileiro",
          endereco_original |-> endereco,
          coordenadas |-> <<longitude, latitude>>,
          sugestao |-> "Verifique se o endereco esta no Brasil e inclua cidade e estado" ])

ErroBaixaConfianca(endereco, confidence, match_type, latitude, longitude) ==
    HTTPException(422,
        [ error |-> "geocoding_very_low_quality",
          message |-> "Endereco nao encontrado com confianca minima",
          endereco_original |-> endereco,
          confidence |-> confidence,
          match_type |-> match_type,
          coordenadas |-> <<longitude, latitude>>,
          sugestao |-> "Verifique se o endereco existe e esta correto" ])

ErroNaoEncontrado(endereco) ==
    HTTPException(404,
        [ error |-> "geocoding_not_found",
          message |-> "Endereco nao encontrado",
          endereco_original |-> endereco,
          sugestao |-> "Verifique a formatacao do endereco e inclua detalhes como cidade, estado e CEP" ])

ErroServicoGeocoding(endereco, e) ==
    HTTPException(500,
        [ error |-> "geocoding_service_error",
          message |-> "Erro no servico de geocoding",
          endereco_original |-> endereco,
          error_details |-> e ])

\* the body of the try block once the provider answered with JSON: what it
\* returns or raises
ValidarGeocoding(endereco, data) ==
    IF Len(Get(data, "features", << >>)) > 0
    THEN LET feature    == data.features[1]
             props      == feature.properties
             coords     == feature.geometry.coordinates
             confidence == Get(props, "confidence", 0)
             match_type == Get(props, "match_type", "unknown")
             latitude   == coords[2]
             longitude  == coords[1]
             aproximada == Aproximada(confidence, match_type)
         IN  IF ~DentroDoBrasil(latitude, longitude)
             THEN Excecao(ErroForaDoBrasil(endereco, latitude, longitude))
             ELSE IF ConfiancaBaixa(confidence)
             THEN Excecao(ErroBaixaConfianca(endereco, confidence, match_type,
                                             latitude, longitude))
             ELSE Retorno(
                 [ endereco_formatado |->
                       [ base   |-> Get(props, "label", endereco.texto),
                         sufixo |-> IF aproximada THEN " (localizacao aproximada)" ELSE "" ],
                   latitude   |-> coords[2],
                   longitude  |-> coords[1],
                   cidade     |-> Get(props, "locality", ""),
                   estado     |-> Get(props, "region", ""),
                   confidence |-> confidence,
                   match_type |-> match_type ])
    ELSE Excecao(ErroNaoEncontrado(endereco))

\* whether "422:" occurs in str(e).  str of an HTTPException is
\* "<status_code>: <detail>"; in the details raised here only the address
\* text can bring the digits 422 before a colon.
Str422(e) ==
    /\ e.classe = "HTTPException"
    /\ \/ e.status_code = 422
       \/ /\ "endereco_original" \in DOMAIN e.detail
          /\ e.detail.endereco_original.contem422

\* the except clauses of the try block: httpx.RequestError first, then
\* Exception, which also catches the HTTPExceptions raised inside the block
TratarExcecaoGeocoding(endereco, e) ==
    IF e.classe = "RequestError"
    THEN HTTPException(500, Texto("Erro na consulta de geocodificacao"))
    ELSE IF Str422(e) THEN e
    ELSE ErroServicoGeocoding(endereco, e)

\* geocodificar_endereco(endereco) with the provider answering resposta:
\* [tipo |-> "RequestError"], [tipo |-> "HTTPStatusError"] (raise_for_status)
\* or [tipo |-> "json", data |-> ...]
GeocodificarEndereco(chave, endereco, resposta_provedor) ==
    IF ~chave THEN Retorno(GeocodingSemApi(endereco))
    ELSE IF MuitoCurto(endereco) THEN Excecao(ErroEnderecoCurto(endereco))
    ELSE LET tentativa ==
                 IF resposta_provedor.tipo = "json"
                 THEN ValidarGeocoding(endereco, resposta_provedor.data)
                 ELSE Excecao([classe |-> resposta_provedor.tipo])
         IN  IF tentativa.tipo = "retorno" THEN tentativa
             ELSE Excecao(TratarExcecaoGeocoding(endereco, tentativa.exc))

\* Provider answers.  A feature's properties may lack confidence, match_type
\* and label.
Feature(props, ponto) ==
    [properties |-> props, geometry |-> [coordinates |-> <<ponto.longitude, ponto.latitude>>]]

Rotulo == "Avenida Paulista, Sao Paulo, SP, Brazil"

PropsDe(confs, tipos, rotulos) ==
    UNION { UNION { { [locality |-> "Sao Paulo", region |-> "SP"] @@ c @@ t @@ l
                      : l \in rotulos } : t \in tipos } : c \in confs }

ConfsGeocoding ==
    { << >> } \cup { [confidence |-> c] : c \in {30000, 49999, 50000, 69999, 70000, 90000} }
TiposGeocoding ==
    { << >> } \cup { [match_type |-> t] : t \in {"exact", "fallback"} }
RotulosGeocoding == { << >>, [label |-> Rotulo] }

RespostasGeocoding ==
    { [tipo |-> "RequestError"], [tipo |-> "HTTPStatusError"],
      [tipo |-> "json", data |-> [features |-> << >>]],
      [tipo |-> "json", data |-> << >>] }
    \cup { [tipo |-> "json", data |-> [features |-> << Feature(props, ponto) >>]]
           : props \in PropsDe(ConfsGeocoding, TiposGeocoding, RotulosGeocoding),
             ponto \in Pontos }

-----------------------------------------------------------------------------
(* The /calcular-rota handler: calcular_rota(rota_request)                  *)

\* "not rota_request.origem.latitude": None (the field is absent) and 0.0
TemLatitude(modelo) == "latitude" \in DOMAIN modelo /\ modelo.latitude # 0

\* origem_geo or destino_geo: the geocoder's outcome, or the request's own
\* EnderecoModel.dict() when it brings a latitude
ResolverEndereco(chave, modelo, resposta_provedor) ==
    IF ~TemLatitude(modelo)
    THEN GeocodificarEndereco(chave, modelo.endereco, resposta_provedor)
    ELSE Retorno(modelo)

ErrosComContexto ==
    { "geocoding_low_quality", "geocoding_not_found", "geocoding_outside_brazil",
      "geocoding_service_error" }

\* the except clause around the two geocoding calls: the same status, the
\* detail copied (a string detail becomes {"message": ...}) and, for the
\* listed errors, a context and instructions added
ContextoRota(e) ==
    LET error_detail == IF EhDict(e.detail) THEN e.detail
                        ELSE [message |-> e.detail.texto]
        listado == EhDict(e.detail) /\ e.detail.error \in ErrosComContexto
    IN  HTTPException(e.status_code,
            IF listado
            THEN error_detail @@
                 [ context |-> "Erro ao calcular rota - problema no geocoding de enderecos",
                   instrucoes |-> "endereco completo, formatacao brasileira, CEP" ]
            ELSE error_detail)

\* the point of the catalogue with the coordinates of g
Coordenadas(g) == [latitude |-> g.latitude, longitude |-> g.longitude]

\* distancia_haversine in hundredths of a km (round(distancia_direta, 2) * 100)
\* between the points of the catalogue, as the function computes it in
\* doubles.  None of the distances lies within 0.005 km of 2000 km except
\* A-B, which is exactly 2000.0.
DistanciaHaversine(origem, destino) ==
    LET par == {Coordenadas(origem), Coordenadas(destino)}
    IN  CASE Cardinality(par) = 1 -> 0
          [] par = {SP, A}    -> 34343
          [] par = {SP, B}    -> 234166
          [] par = {SP, LUA}  -> 655808
          [] par = {SP, EQ}   -> 264381
          [] par = {A, B}     -> 200000
          [] par = {A, LUA}   -> 690034
          [] par = {A, EQ}    -> 260868
          [] par = {B, LUA}   -> 889964
          [] par = {B, EQ}    -> 336079
          [] par = {LUA, EQ}  -> 707547

\* 2000 km, in hundredths of a km
LimiteDistancia == 200000

\* RotaMuitoLonga rejecting the limit itself
RotaMuitoLongaInclusiva(distancia) == distancia >= LimiteDistancia

\* "distancia_direta > 2000"
RotaMuitoLonga(distancia) == distancia > LimiteDistancia

ErroRotaMuitoLonga(distancia, origem, destino) ==
    HTTPException(422,
        [ error |-> "route_too_long",
          message |-> "Distancia entre origem e destino muito grande",
          distancia_km |-> distancia,
          origem  |-> Get(origem, "endereco_formatado", ""),
          destino |-> Get(destino, "endereco_formatado", ""),
          sugestao |-> "Verifique se os enderecos estao corretos e na mesma regiao" ])

-----------------------------------------------------------------------------
(* MapaService.calcular_rota                                                *)

\* the two-point geometry built from origem and destino
DoisPontos(origem, destino) ==
    << <<origem.longitude, origem.latitude>>, <<destino.longitude, destino.latitude>> >>

\* the return value when no API key is configured; distances in tenths of a
\* km, hours in hundredths, speeds in tenths of km/h
RotaSemApi(origem, destino) ==
    LET distancia == RMul(Rat(Abs(origem.latitude - destino.latitude), 1000000), RInt(111))
    IN  [ distancia_km          |-> Round(distancia, 1),
          tempo_estimado_horas  |-> 10 * Round(RDiv(distancia, RInt(50)), 1),
          velocidade_media_kmh  |-> 500,
          tipo_via_predominante |-> "urbana",
          tem_pedagio           |-> FALSE,
          coordenadas_rota      |-> DoisPontos(origem, destino),
          instrucoes |-> << [sair_de   |-> Get(origem, "endereco_formatado", "origem")],
                            [chegar_em |-> Get(destino, "endereco_formatado", "destino")] >> ]

RECURSIVE Soma(_, _)
\* sum(seg.get(campo, 0) for seg in segments)
Soma(segments, campo) ==
    IF segments = << >> THEN 0
    ELSE Get(Head(segments), campo, 0) + Soma(Tail(segments), campo)

\* the texts of a segment in which "city" or "urban" occurs
DescricoesUrbanas == { "city street", "Urban road" }

\* UsarSegmentos falling back only when distance and duration are both zero
UsarSegmentosAmbosZero(resumo_m, resumo_s, segments) ==
    (resumo_m = 0 /\ resumo_s = 0) /\ Len(segments) > 0

\* "if distance_m == 0 or duration_s == 0: ... if segments:"
UsarSegmentos(resumo_m, resumo_s, segments) ==
    (resumo_m = 0 \/ resumo_s = 0) /\ Len(segments) > 0

\* the dict built from data["routes"][0]; distance in metres, duration in seconds
ExtrairRota(route, origem, destino) ==
    LET summary  == Get(route, "summary", << >>)
        segments == Get(route, "segments", << >>)
        resumo_m == Get(summary, "distance", 0)
        resumo_s == Get(summary, "duration", 0)
        usar_segmentos == UsarSegmentos(resumo_m, resumo_s, segments)
        distance_m == IF usar_segmentos THEN Soma(segments, "distance") ELSE resumo_m
        duration_s == IF usar_segmentos THEN Soma(segments, "duration") ELSE resumo_s
        via_urbana == \E i \in 1 .. Len(segments) :
                          Get(segments[i], "descricao", "") \in DescricoesUrbanas
        geometry == Get(route, "geometry", NoValue)
        da_geometria ==
            IF geometry = NoValue THEN << >>
            ELSE IF geometry.tipo = "dict" /\ "coordinates" \in DOMAIN geometry
            THEN geometry.coordinates
            ELSE IF geometry.tipo = "str" THEN DoisPontos(origem, destino)
            ELSE << >>
        coordenadas_rota == IF da_geometria = << >> THEN DoisPontos(origem, destino)
                            ELSE da_geometria
    IN  [ distancia_km |-> IF distance_m > 0 THEN Round(Rat(distance_m, 1000), 1) ELSE 0,
          tempo_estimado_horas |-> IF duration_s > 0 THEN Round(Rat(duration_s, 3600), 2) ELSE 0,
          velocidade_media_kmh |->
              IF distance_m > 0 /\ duration_s > 0
              THEN Round(RDiv(Rat(distance_m, 1000), Rat(duration_s, 3600)), 1) ELSE 0,
          tipo_via_predominante |-> IF via_urbana THEN "urbana" ELSE "interior",
          tem_pedagio      |-> FALSE,
          coordenadas_rota |-> coordenadas_rota,
          instrucoes       |-> << >> ]

\* calcular_rota(origem, destino, paradas, perfil) with the provider answering
\* resposta_provedor.  paradas holds EnderecoModel objects, which cannot be
\* subscripted: a non-empty list raises TypeError while the coordinates are
\* put together.  Only httpx.RequestError is caught.
MapaCalcularRota(chave, origem, destino, paradas, resposta_provedor) ==
    IF ~chave THEN Retorno(RotaSemApi(origem, destino))
    ELSE IF Len(paradas) > 0 THEN Excecao([classe |-> "TypeError"])
    ELSE IF resposta_provedor.tipo = "RequestError"
    THEN Excecao(HTTPException(500, Texto("Erro no calculo da rota")))
    ELSE IF resposta_provedor.tipo = "HTTPStatusError"
    THEN Excecao([classe |-> "HTTPStatusError"])
    ELSE IF Len(Get(resposta_provedor.data, "routes", << >>)) > 0
    THEN Retorno(ExtrairRota(resposta_provedor.data.routes[1], origem, destino))
    ELSE Excecao(HTTPException(404, Texto("Rota nao encontrada")))

-----------------------------------------------------------------------------
(* The /otimizar-com-mapa handler: otimizar_com_mapa(request)               *)

\* veiculos_consumo.get(request.veiculo, 12.0)
ConsumoVeiculo(veiculo) ==
    CASE veiculo = "fiorino" -> RInt(12)
      [] veiculo = "expert"  -> RInt(10)
      [] veiculo = "transit" -> RInt(8)
      [] OTHER               -> RInt(12)

\* ArgumentosOtimizador pricing the hour at the driver's cost plus the
\* vehicle's
ArgumentosOtimizadorCustoVeiculo(request, rota) ==
    [ distancia_km         |-> Rat(rota.distancia_km, 10),
      massa_kg             |-> request.massa,
      preco_combustivel    |-> request.preco_combustivel,
      consumo_base_kmh     |-> ConsumoVeiculo(request.veiculo),
      custo_motorista_hora |-> RAdd(request.custo_hora_motorista, request.custo_hora_veiculo),
      tipo_rota            |-> "urbana",
      tipo_veiculo         |-> request.veiculo,
      paradas              |-> 5,
      nivel_combustivel    |-> request.combustivel_inicial ]

\* the arguments of the otimizar_velocidade call
ArgumentosOtimizador(request, rota) ==
    [ distancia_km         |-> Rat(rota.distancia_km, 10),
      massa_kg             |-> request.massa,
      preco_combustivel    |-> request.preco_combustivel,
      consumo_base_kmh     |-> ConsumoVeiculo(request.veiculo),
      custo_motorista_hora |-> request.custo_hora_motorista,
      tipo_rota            |-> "urbana",
      tipo_veiculo         |-> request.veiculo,
      paradas              |-> 5,
      nivel_combustivel    |-> request.combustivel_inicial ]

\* resultado['rota_info']
RotaInfo(request, rota) ==
    [ nome_veiculo              |-> request.nome_veiculo,
      distancia_km              |-> rota.distancia_km,
      tempo_estimado_horas      |-> rota.tempo_estimado_horas,
      velocidade_media_sugerida |-> rota.velocidade_media_kmh,
      tipo_via                  |-> rota.tipo_via_predominante,
      tem_pedagio               |-> rota.tem_pedagio,
      origem                    |-> request.rota.origem.endereco,
      destino                   |-> request.rota.destino.endereco,
      coordenadas_rota          |-> rota.coordenadas_rota ]

\* the row inserted into table otimizacoes
LinhaBanco(request, rota, res) ==
    [ nome_veiculo         |-> request.nome_veiculo,
      origem               |-> request.rota.origem.endereco,
      destino              |-> request.rota.destino.endereco,
      distancia_km         |-> rota.distancia_km,
      velocidade_otima     |-> res.velocidade_otima,
      custo_total          |-> res.custo_total,
      economia_rs          |-> res.economia_vs_40kmh,
      economia_percentual  |-> res.economia_percentual,
      tempo_viagem_horas   |-> res.cenario.tempo_viagem_horas,
      preco_combustivel    |-> request.preco_combustivel,
      custo_motorista_hora |-> request.custo_hora_motorista ]

\* the outer except clause: whatever was raised becomes a status 500 whose
\* detail is the string "Erro na otimizacao: " followed by str(e)
ErroNaOtimizacao(e) ==
    HTTPException(500, [texto |-> "Erro na otimizacao: ", str |-> e])

\* no /otimizar-com-mapa request is being served
SemPedido ==
    /\ pedido = NoValue
    /\ pc = "ocioso"
    /\ origem_geo = NoValue
    /\ destino_geo = NoValue
    /\ distancia_direta = NoValue
    /\ rota_calculada = NoValue
    /\ resposta = NoValue
    /\ banco = << >>
    /\ levantado = NoValue
    /\ passos = << >>

-----------------------------------------------------------------------------
(* Direct calls of otimizar_velocidade: the arguments are drawn in the      *)
(* initial state and the call returns in one step.                          *)

\* distancia_km: below zero, zero, inside every range and on every boundary
Distancias == { Rat(-1, 1), RInt(0), Rat(1, 2), RInt(1), RInt(3), RInt(5),
                RInt(10), RInt(15), RInt(20), RInt(50), RInt(60) }
\* 5.05 is five cents per litre above 5.00
Precos     == { Rat(55, 10), RInt(5), Rat(505, 100) }
Consumos   == { RInt(12), RInt(10), RInt(8) }
\* 46.035 makes the 25th and the 50th sample of the range 50-90 cost the same at
\* 20 km, 5.00 R$/L and 10 km/L
CustosHora == { RInt(25), Rat(46035, 1000) }

Entradas ==
    [ distancia_km : Distancias, massa_kg : {1500}, preco_combustivel : Precos,
      consumo_base_kmh : Consumos, custo_motorista_hora : CustosHora,
      tipo_rota : {"urbana"}, tipo_veiculo : {"fiorino"}, paradas : {5},
      nivel_combustivel : {Rat(8, 10)} ]

InitOtimizador ==
    /\ entrada \in Entradas
    /\ resultado = NoValue
    /\ chave_api = FALSE
    /\ geocoding = NoValue
    /\ roteamento = NoValue
    /\ SemPedido

ChamarOtimizador ==
    /\ entrada # NoValue
    /\ resultado = NoValue
    /\ resultado' = OtimizarVelocidade(entrada)
    /\ UNCHANGED <<entrada, chave_api, geocoding, roteamento, vars_pedido>>

NextOtimizador == ChamarOtimizador

SpecOtimizador == InitOtimizador /\ [][NextOtimizador]_vars

-----------------------------------------------------------------------------
(* Direct calls of MapaService.geocodificar_endereco (the /geocodificar     *)
(* endpoint hands its argument over and its outcome back unchanged).        *)

InitGeocodificar ==
    /\ chave_api \in BOOLEAN
    /\ geocoding \in { [endereco |-> e] : e \in Enderecos }
    /\ entrada = NoValue
    /\ resultado = NoValue
    /\ roteamento = NoValue
    /\ SemPedido

\* the provider is asked only with a key configured and an address of five
\* characters or more
ProvedorConsultado(chave, endereco) == chave /\ ~MuitoCurto(endereco)

ChamarGeocodificar ==
    /\ "saida" \notin DOMAIN geocoding
    /\ \E r \in RespostasGeocoding :
           geocoding' =
               [ endereco |-> geocoding.endereco,
                 provedor |-> IF ProvedorConsultado(chave_api, geocoding.endereco)
                              THEN r ELSE NoValue,
                 saida    |-> GeocodificarEndereco(chave_api, geocoding.endereco, r) ]
    /\ UNCHANGED <<entrada, resultado, chave_api, roteamento, vars_pedido>>

NextGeocodificar == ChamarGeocodificar

SpecGeocodificar == InitGeocodificar /\ [][NextGeocodificar]_vars

-----------------------------------------------------------------------------
(* One /otimizar-com-mapa request, a step of the handler at a time.         *)

EnderecoCompleto == [texto |-> "Av Paulista 1000, Sao Paulo - SP", comprimento |-> 32,
                     contem422 |-> FALSE]
EnderecoCurto    == [texto |-> " SP  ", comprimento |-> 2, contem422 |-> FALSE]

\* EnderecoModel values: the address alone, the address with both coordinates,
\* and the address with a latitude and no longitude
ModelosEndereco ==
    { [endereco |-> e] : e \in {EnderecoCompleto, EnderecoCurto} }
    \cup { [endereco |-> EnderecoCompleto, latitude |-> p.latitude,
            longitude |-> p.longitude] : p \in Pontos }
    \cup { [endereco |-> EnderecoCompleto, latitude |-> A.latitude] }

\* the longest paradas_intermediarias
MaxParadas == 1

ListasParadas ==
    { << >> } \cup
    { [i \in 1 .. n |-> [endereco |-> EnderecoCompleto, latitude |-> A.latitude,
                         longitude |-> A.longitude]] : n \in 1 .. MaxParadas }

Pedidos ==
    [ rota : [ origem : ModelosEndereco, destino : ModelosEndereco,
               paradas_intermediarias : ListasParadas,
               perfil_veiculo : {"driving-car"} ],
      nome_veiculo : {"Van 01"}, massa : {1500}, preco_combustivel : {Rat(55, 10)},
      custo_hora_motorista : {RInt(25)}, custo_hora_veiculo : {RInt(15)},
      veiculo : {"fiorino", "kombi"}, combustivel_inicial : {Rat(8, 10)} ]

\* the geocoding provider's answers within a request
RespostasGeocodingPedido ==
    { [tipo |-> "RequestError"],
      [tipo |-> "json", data |-> [features |-> << >>]] }
    \cup { [tipo |-> "json", data |-> [features |-> << Feature(props, ponto) >>]]
           : props \in PropsDe({ [confidence |-> c] : c \in {30000, 50000, 90000} },
                               { [match_type |-> "exact"] }, { [label |-> Rotulo] }),
             ponto \in Pontos }

\* the routing provider's answers: failures, no route, and routes with a
\* summary (10 km over a city street, 10 km over a highway), with segments
\* only, with neither, and with a duration only
RespostasRota ==
    { [tipo |-> "RequestError"], [tipo |-> "HTTPStatusError"],
      [tipo |-> "json", data |-> [routes |-> << >>]],
      [tipo |-> "json", data |-> << >>] }
    \cup { [tipo |-> "json", data |-> [routes |-> << route >>]] : route \in
           { [ summary  |-> [distance |-> 10000, duration |-> 1200],
               segments |-> << [distance |-> 10000, duration |-> 1200,
                                descricao |-> "city street"] >>,
               geometry |-> [tipo |-> "dict",
                             coordinates |-> << <<-46633309, -23550520>>,
                                                <<-46640000, -23560000>>,
                                                <<-46650000, -23570000>> >>] ],
             [ summary  |-> << >>,
               segments |-> << [distance |-> 3000, duration |-> 400, descricao |-> "highway"],
                               [distance |-> 2000, duration |-> 320, descricao |-> "highway"] >>,
               geometry |-> [tipo |-> "str"] ],
             [ summary  |-> [distance |-> 10000, duration |-> 1200],
               segments |-> << [distance |-> 10000, duration |-> 1200,
                                descricao |-> "highway"] >> ],
             [ summary  |-> [distance |-> 0, duration |-> 0] ],
             [ summary  |-> [distance |-> 0, duration |-> 600],
               geometry |-> [tipo |-> "dict", coordinates |-> << >>] ] } }

Init ==
    /\ pedido \in Pedidos
    /\ chave_api \in BOOLEAN
    /\ pc = "origem"
    /\ origem_geo = NoValue
    /\ destino_geo = NoValue
    /\ distancia_direta = NoValue
    /\ rota_calculada = NoValue
    /\ resposta = NoValue
    /\ banco = << >>
    /\ levantado = NoValue
    /\ passos = << >>
    /\ entrada = NoValue
    /\ resultado = NoValue
    /\ geocoding = NoValue
    /\ roteamento = NoValue

\* a step ran to its end
Passou(passo, proximo) ==
    /\ pc' = proximo
    /\ passos' = Append(passos, [passo |-> passo, ok |-> TRUE])
    /\ UNCHANGED <<resposta, levantado>>

\* a step raised: exc is the exception as the component raised it, saida the
\* exception as it leaves calcular_rota; otimizar_com_mapa's except clause
\* turns it into the answer
Falhou(passo, componente, exc, saida) ==
    /\ pc' = "falhou"
    /\ passos' = Append(passos, [passo |-> passo, ok |-> FALSE])
    /\ levantado' = [componente |-> componente, exc |-> exc]
    /\ resposta' = Excecao(ErroNaOtimizacao(saida))

GeocodificarOrigem ==
    /\ pc = "origem"
    /\ \E r \in RespostasGeocodingPedido :
           LET saida == ResolverEndereco(chave_api, pedido.rota.origem, r)
           IN  IF saida.tipo = "retorno"
               THEN /\ origem_geo' = saida.valor
                    /\ Passou("origem", "destino")
               ELSE /\ Falhou("origem", "geocodificador", saida.exc, ContextoRota(saida.exc))
                    /\ UNCHANGED origem_geo
    /\ UNCHANGED <<entrada, resultado, chave_api, geocoding, roteamento, pedido, destino_geo,
                   distancia_direta, rota_calculada, banco>>

GeocodificarDestino ==
    /\ pc = "destino"
    /\ \E r \in RespostasGeocodingPedido :
           LET saida == ResolverEndereco(chave_api, pedido.rota.destino, r)
           IN  IF saida.tipo = "retorno"
               THEN /\ destino_geo' = saida.valor
                    /\ Passou("destino", "sanidade")
               ELSE /\ Falhou("destino", "geocodificador", saida.exc, ContextoRota(saida.exc))
                    /\ UNCHANGED destino_geo
    /\ UNCHANGED <<entrada, resultado, chave_api, geocoding, roteamento, pedido, origem_geo,
                   distancia_direta, rota_calculada, banco>>

\* distancia_haversine and the check against 2000 km; a longitude of None
\* raises TypeError in the subtraction
ValidarDistancia ==
    /\ pc = "sanidade"
    /\ IF "longitude" \notin DOMAIN origem_geo \/ "longitude" \notin DOMAIN destino_geo
       THEN /\ Falhou("sanidade", "sanidade", [classe |-> "TypeError"],
                      [classe |-> "TypeError"])
            /\ UNCHANGED distancia_direta
       ELSE LET distancia == DistanciaHaversine(origem_geo, destino_geo)
                erro == ErroRotaMuitoLonga(distancia, origem_geo, destino_geo)
            IN  /\ distancia_direta' = [centesimos_km |-> distancia]
                /\ IF RotaMuitoLonga(distancia)
                   THEN Falhou("sanidade", "sanidade", erro, erro)
                   ELSE Passou("sanidade", "rota")
    /\ UNCHANGED <<entrada, resultado, chave_api, geocoding, roteamento, pedido, origem_geo,
                   destino_geo, rota_calculada, banco>>

CalcularRota ==
    /\ pc = "rota"
    /\ \E r \in RespostasRota :
           LET saida == MapaCalcularRota(chave_api, origem_geo, destino_geo,
                                         pedido.rota.paradas_intermediarias, r)
           IN  IF saida.tipo = "retorno"
               THEN /\ rota_calculada' = saida.valor
                    /\ Passou("rota", "otimizar")
               ELSE /\ Falhou("rota", "roteador", saida.exc, saida.exc)
                    /\ UNCHANGED rota_calculada
    /\ UNCHANGED <<entrada, resultado, chave_api, geocoding, roteamento, pedido, origem_geo,
                   destino_geo, distancia_direta, banco>>

Otimizar ==
    /\ pc = "otimizar"
    /\ entrada' = ArgumentosOtimizador(pedido, rota_calculada)
    /\ resultado' = OtimizarVelocidade(entrada') @@
                    [rota_info |-> RotaInfo(pedido, rota_calculada)]
    /\ Passou("otimizar", "salvar")
    /\ UNCHANGED <<chave_api, geocoding, roteamento, pedido, origem_geo, destino_geo,
                   distancia_direta, rota_calculada, banco>>

\* where the history write can raise: sqlite3.connect, cursor.execute of the
\* INSERT, conn.commit; or nowhere
FalhasBanco == {"nenhuma", "connect", "execute", "commit"}

\* table otimizacoes after the write: the row is there only when connect,
\* INSERT and commit all went through
SalvarNoBanco(linhas, linha, falha) ==
    IF falha = "nenhuma" THEN Append(linhas, linha) ELSE linhas

\* a variant in which an exception of the write leaves the inner try and
\* reaches the outer except clause
RespostaAposSalvarPropaga(res, falha) ==
    IF falha = "nenhuma" THEN Retorno(res)
    ELSE Excecao(ErroNaOtimizacao([classe |-> "sqlite3.Error", etapa |-> falha]))

\* the inner except clause prints the exception, and resultado is returned
RespostaAposSalvar(res, falha) == Retorno(res)

\* the history write, whose failure is caught and printed, and the return
SalvarERetornar ==
    /\ pc = "salvar"
    /\ \E falha \in FalhasBanco :
           /\ banco' = SalvarNoBanco(banco, LinhaBanco(pedido, rota_calculada, resultado),
                                     falha)
           /\ passos' = Append(passos, [passo |-> "salvar", ok |-> falha = "nenhuma",
                                        falha |-> falha])
           /\ resposta' = RespostaAposSalvar(resultado, falha)
    /\ pc' = "fim"
    /\ UNCHANGED <<entrada, resultado, chave_api, geocoding, roteamento, pedido, origem_geo,
                   destino_geo, distancia_direta, rota_calculada, levantado>>

Next ==
    \/ GeocodificarOrigem
    \/ GeocodificarDestino
    \/ ValidarDistancia
    \/ CalcularRota
    \/ Otimizar
    \/ SalvarERetornar

Spec == Init /\ [][Next]_vars

-----------------------------------------------------------------------------
(* Requests between two given points that differ in the vehicle's data.     *)

ComCoordenadas(ponto) ==
    [endereco |-> EnderecoCompleto, latitude |-> ponto.latitude,
     longitude |-> ponto.longitude]

\* the limits the request model accepts for massa, custo_hora_veiculo and
\* combustivel_inicial; two vehicle types of different consumption
PedidosVeiculos ==
    [ rota : [ origem : {ComCoordenadas(SP)}, destino : {ComCoordenadas(A)},
               paradas_intermediarias : { << >> },
               perfil_veiculo : {"driving-car"} ],
      nome_veiculo : {"Van 01"}, massa : {1000, 3500}, preco_combustivel : {Rat(55, 10)},
      custo_hora_motorista : {RInt(25)}, custo_hora_veiculo : {RInt(5), RInt(50)},
      veiculo : {"fiorino", "transit"}, combustivel_inicial : {Rat(1, 10), RInt(1)} ]

InitVeiculos ==
    /\ pedido \in PedidosVeiculos
    /\ chave_api \in BOOLEAN
    /\ pc = "origem"
    /\ origem_geo = NoValue
    /\ destino_geo = NoValue
    /\ distancia_direta = NoValue
    /\ rota_calculada = NoValue
    /\ resposta = NoValue
    /\ banco = << >>
    /\ levantado = NoValue
    /\ passos = << >>
    /\ entrada = NoValue
    /\ resultado = NoValue
    /\ geocoding = NoValue
    /\ roteamento = NoValue

SpecVeiculos == InitVeiculos /\ [][Next]_vars

-----------------------------------------------------------------------------
(* Direct calls of MapaService.calcular_rota.                               *)

\* summary and segments of data["routes"][0]; a field may be missing.  40 m
\* is a positive distance that rounds to 0.0 km.
ResumosRota ==
    { d @@ t : d \in { << >> } \cup { [distance |-> m] : m \in {0, 40, 10000} },
               t \in { << >> } \cup { [duration |-> x] : x \in {0, 600, 1200} } }

SegmentosRota ==
    { << >>,
      << [distance |-> 3000, duration |-> 400, descricao |-> "city street"],
         [distance |-> 2000, duration |-> 320, descricao |-> "highway"] >>,
      << [distance |-> 3000, descricao |-> "highway"],
         [duration |-> 330, descricao |-> "highway"] >>,
      << [distance |-> 40, duration |-> 30, descricao |-> "Urban road"] >>,
      << [descricao |-> "highway"] >> }

RotasProvedor ==
    { [summary |-> r] @@ g : r \in ResumosRota, g \in { << >>, [geometry |-> [tipo |-> "str"]] } }
    \cup { [summary |-> r, segments |-> sg] : r \in ResumosRota, sg \in SegmentosRota }
    \cup { [segments |-> sg] : sg \in SegmentosRota }

RespostasRoteamento ==
    { [tipo |-> "RequestError"], [tipo |-> "HTTPStatusError"],
      [tipo |-> "json", data |-> [routes |-> << >>]] }
    \cup { [tipo |-> "json", data |-> [routes |-> << route >>]] : route \in RotasProvedor }

InitRota ==
    /\ chave_api \in BOOLEAN
    /\ roteamento \in [ origem : {SP, A}, destino : {A},
                        paradas : ListasParadas ]
    /\ entrada = NoValue
    /\ resultado = NoValue
    /\ geocoding = NoValue
    /\ SemPedido

\* the provider is asked only with a key configured and no stop to put
\* into the coordinates
RoteadorConsultado(chave, paradas) == chave /\ Len(paradas) = 0

ChamarCalcularRota ==
    /\ "saida" \notin DOMAIN roteamento
    /\ \E r \in RespostasRoteamento :
           roteamento' =
               [ origem   |-> roteamento.origem,
                 destino  |-> roteamento.destino,
                 paradas  |-> roteamento.paradas,
                 provedor |-> IF RoteadorConsultado(chave_api, roteamento.paradas)
                              THEN r ELSE NoValue,
                 saida    |-> MapaCalcularRota(chave_api, roteamento.origem,
                                               roteamento.destino, roteamento.paradas, r) ]
    /\ UNCHANGED <<entrada, resultado, chave_api, geocoding, vars_pedido>>

NextRota == ChamarCalcularRota

SpecRota == InitRota /\ [][NextRota]_vars

-----------------------------------------------------------------------------
(* Claims about otimizar_velocidade, checked under SpecOtimizador.          *)

Retornou == resultado # NoValue

\* the cost model as the claim C1 words it
C1_Multiplier(v) ==
    IF RLt(v, RInt(30)) THEN Rat(14, 10)
    ELSE IF RLe(RInt(30), v) /\ RLt(v, RInt(50)) THEN Rat(12, 10)
    ELSE IF RGt(v, RInt(70)) THEN Rat(13, 10)
    ELSE RInt(1)

C1_StopTime(d, v) == IF RLt(v, RInt(40)) THEN RMul(Rat(2, 100), d) ELSE RInt(0)

C1_TotalCost(e, v) ==
    RAdd(RMul(RMul(RMax(RDiv(e.distancia_km, e.consumo_base_kmh), Rat(5, 100)),
                   C1_Multiplier(v)),
              e.preco_combustivel),
         RMul(RAdd(RDiv(e.distancia_km, v), C1_StopTime(e.distancia_km, v)),
              e.custo_motorista_hora))

\* the k-th of 50 evenly spaced speeds over [v_min, v_max], both ends included
C1_Sample(faixa, k) == RAdd(RInt(faixa[1]), Rat((k - 1) * (faixa[2] - faixa[1]), 49))

C1_Costs(e) ==
    Lista([k \in 1 .. 50 |-> C1_TotalCost(e, C1_Sample(FaixaVelocidade(e.distancia_km), k))])

\* k is the lowest-speed sample among those of minimal total cost
C1_FirstMinimum(custos, k) ==
    /\ \A j \in 1 .. 50 : RLe(custos[k], custos[j])
    /\ \A j \in 1 .. (k - 1) : RLt(custos[k], custos[j])

\* C1: the optimal speed returned is the speed of the sample of minimal total
\* cost among the 50 evenly spaced samples of the range, the cost being
\* max(d/consumption, 0.05) * multiplier(v) * price + (d/v + stop_time(v)) * driver cost;
\* among several samples of minimal cost it is the one of lowest speed.
C1_OptimalIsFirstMinimalSample ==
    Retornou =>
        LET custos == C1_Costs(entrada)
            faixa  == FaixaVelocidade(entrada.distancia_km)
        IN  \E k \in 1 .. 50 :
                /\ C1_FirstMinimum(custos, k)
                /\ resultado.velocidade_otima = Round(C1_Sample(faixa, k), 1)

\* a call returned where two samples share the minimal cost and the speed
\* returned is the lower one's
C1_Witness ==
    /\ Retornou
    /\ LET custos == C1_Costs(entrada)
           faixa  == FaixaVelocidade(entrada.distancia_km)
       IN  \E k \in 1 .. 50 : \E j \in (k + 1) .. 50 :
               /\ C1_FirstMinimum(custos, k)
               /\ Cmp(custos[k][1], custos[k][2], custos[j][1], custos[j][2]) = 0
               /\ resultado.velocidade_otima = Round(C1_Sample(faixa, k), 1)

\* the ranges as the claim C2 lists them
C2_Bucket(d) ==
    IF RLe(RInt(0), d) /\ RLt(d, RInt(1)) THEN <<15, 30>>
    ELSE IF RLe(RInt(1), d) /\ RLt(d, RInt(5)) THEN <<20, 50>>
    ELSE IF RLe(RInt(5), d) /\ RLt(d, RInt(15)) THEN <<30, 70>>
    ELSE IF RLe(RInt(15), d) /\ RLt(d, RInt(50)) THEN <<50, 90>>
    ELSE <<60, 110>>

\* C2: for every distance_km > 0 the optimal speed returned lies inside the
\* speed range of the distance's bucket ([0,1) -> [15,30], [1,5) -> [20,50],
\* [5,15) -> [30,70], [15,50) -> [50,90], [50,inf) -> [60,110], a boundary
\* distance belonging to the upper bucket), which is the range the result reports.
C2_OptimalSpeedInsideBucket ==
    (Retornou /\ RGt(entrada.distancia_km, RInt(0))) =>
        LET b == C2_Bucket(entrada.distancia_km)
        IN  /\ 10 * b[1] <= resultado.velocidade_otima
            /\ resultado.velocidade_otima <= 10 * b[2]
            /\ resultado.cenario.faixa_velocidade = b

\* a call returned for a distance on a bucket boundary (5 km)
C2_Witness ==
    /\ Retornou
    /\ entrada.distancia_km = RInt(5)
    /\ resultado.cenario.faixa_velocidade = <<30, 70>>
    /\ resultado.velocidade_otima >= 300
    /\ resultado.velocidade_otima <= 700

\* the identity on three returned values (in cents)
C3_Exact(r) == r.custo_total = r.custo_combustivel + r.custo_tempo
C3_WithinOneCent(r) == Abs(r.custo_total - (r.custo_combustivel + r.custo_tempo)) <= 1

\* C3 as claimed: every cost-curve entry and the optimum breakdown satisfy
\* custo_total = custo_combustivel + custo_tempo exactly, on the values returned.
C3_ReturnedCostsAddUpExactly ==
    Retornou =>
        /\ \A k \in 1 .. 50 : C3_Exact(resultado.grafico_dados[k])
        /\ C3_Exact(resultado.analise.ponto_otimo)

\* C3 as amended: the three values are rounded to cents each on its own, so
\* on the values returned custo_total differs from custo_combustivel +
\* custo_tempo by one cent at most, in every cost-curve entry and in the
\* optimum breakdown.
C3_ReturnedCostsAddUpWithinOneCent ==
    Retornou =>
        /\ \A k \in 1 .. 50 : C3_WithinOneCent(resultado.grafico_dados[k])
        /\ C3_WithinOneCent(resultado.analise.ponto_otimo)

\* a call returned with a curve entry one cent off the sum
C3_Witness ==
    /\ Retornou
    /\ \E k \in 1 .. 50 : ~C3_Exact(resultado.grafico_dados[k])

\* the end-to-end example of C4
C4_Example(e) ==
    /\ e.distancia_km = RInt(10)
    /\ e.preco_combustivel = Rat(550, 100)
    /\ e.consumo_base_kmh = RInt(12)
    /\ e.custo_motorista_hora = RInt(25)

\* C4 as claimed: for 10 km, 5.50 R$/L, 12 km/L and 25 R$/h the search is over
\* [30, 70] and the optimal speed is near the low end (closer to 30 than to 70).
C4_ExampleOptimumNearLowEnd ==
    (Retornou /\ C4_Example(entrada)) =>
        /\ resultado.cenario.faixa_velocidade = <<30, 70>>
        /\ resultado.velocidade_otima - 300 < 700 - resultado.velocidade_otima

\* C4 as amended: for those inputs the search is over [30, 70] and the optimal
\* speed returned is 70.0 km/h, the upper end of the range.
C4_ExampleOptimumIsUpperEnd ==
    (Retornou /\ C4_Example(entrada)) =>
        /\ resultado.cenario.faixa_velocidade = <<30, 70>>
        /\ resultado.velocidade_otima = 700

\* the example's call returned
C4_Witness == Retornou /\ C4_Example(entrada)

\* C5 as claimed: whenever distance_km <= 0 the call fails (InvalidDistanceError)
\* and returns no result.
C5_NonPositiveDistanceReturnsNothing ==
    RLe(entrada.distancia_km, RInt(0)) => ~Retornou

-----------------------------------------------------------------------------
(* Claims about geocodificar_endereco, checked under SpecGeocodificar.      *)

GeocodingTerminou == geocoding # NoValue /\ "saida" \in DOMAIN geocoding

\* the provider answered with at least one candidate; its best match
TemMatch ==
    /\ GeocodingTerminou
    /\ geocoding.provedor # NoValue
    /\ geocoding.provedor.tipo = "json"
    /\ Len(Get(geocoding.provedor.data, "features", << >>)) > 0

MatchProps == geocoding.provedor.data.features[1].properties
MatchLat   == geocoding.provedor.data.features[1].geometry.coordinates[2]
MatchLon   == geocoding.provedor.data.features[1].geometry.coordinates[1]
\* a missing confidence counts as the lowest trust
MatchConfidence == IF "confidence" \in DOMAIN MatchProps THEN MatchProps.confidence ELSE 0

\* the bounding box latitude [-35, 5], longitude [-75, -30]
C9_InsideBox(lat, lon) ==
    -35000000 <= lat /\ lat <= 5000000 /\ -75000000 <= lon /\ lon <= -30000000

FalhouCom(saida, status, erro) ==
    /\ saida.tipo = "excecao"
    /\ saida.exc.classe = "HTTPException"
    /\ saida.exc.status_code = status
    /\ EhDict(saida.exc.detail)
    /\ saida.exc.detail.error = erro

\* C9 as claimed: every best match of confidence below 0.5 fails with the
\* low-confidence error, whatever its coordinate and match type; confidence
\* exactly 0.5 inside the bounding box is accepted.
C9_LowConfidenceDecidedFirst ==
    TemMatch =>
        /\ MatchConfidence < 50000 =>
               FalhouCom(geocoding.saida, 422, "geocoding_very_low_quality")
        /\ (MatchConfidence = 50000 /\ C9_InsideBox(MatchLat, MatchLon)) =>
               geocoding.saida.tipo = "retorno"

\* C9 as amended: the bounding box is decided before the confidence.  A best
\* match outside the box fails with the out-of-region error whatever its
\* confidence; a best match inside the box with confidence below 0.5 (a
\* missing confidence counting as lowest trust) fails with the low-confidence
\* error whatever its match type; confidence exactly 0.5 inside the box is
\* accepted.
C9_BoxDecidedBeforeConfidence ==
    TemMatch =>
        /\ ~C9_InsideBox(MatchLat, MatchLon) =>
               FalhouCom(geocoding.saida, 422, "geocoding_outside_brazil")
        /\ (C9_InsideBox(MatchLat, MatchLon) /\ MatchConfidence < 50000) =>
               FalhouCom(geocoding.saida, 422, "geocoding_very_low_quality")
        /\ (C9_InsideBox(MatchLat, MatchLon) /\ MatchConfidence = 50000) =>
               geocoding.saida.tipo = "retorno"

\* a best match of confidence below 0.5 outside the box was answered with
\* the out-of-region error
C9_Witness ==
    /\ TemMatch
    /\ MatchConfidence < 50000
    /\ ~C9_InsideBox(MatchLat, MatchLon)
    /\ FalhouCom(geocoding.saida, 422, "geocoding_outside_brazil")

\* C10 as claimed: when the provider returns no candidate the call fails with
\* the address-not-found error (geocoding_not_found, status 404, carrying the
\* original address and the suggestion), and that is what the caller receives.
C10_NoCandidateIsNotFound ==
    ( /\ GeocodingTerminou
      /\ geocoding.provedor # NoValue
      /\ geocoding.provedor.tipo = "json"
      /\ Len(Get(geocoding.provedor.data, "features", << >>)) = 0 ) =>
        /\ FalhouCom(geocoding.saida, 404, "geocoding_not_found")
        /\ geocoding.saida.exc.detail.endereco_original = geocoding.endereco
        /\ "sugestao" \in DOMAIN geocoding.saida.exc.detail

-----------------------------------------------------------------------------
(* Claims about one /otimizar-com-mapa request, checked under Spec.         *)

\* the request ended in failure after its component raised an HTTPException
\* with a dict detail
FalhaEstruturada ==
    /\ pc = "falhou"
    /\ levantado.exc.classe = "HTTPException"
    /\ EhDict(levantado.exc.detail)

\* C6: when geocoding, the sanity check or routing fails with a structured
\* error, the caller of otimizar_com_mapa receives an error of the same status
\* whose detail holds every field of the component's error with the same value.
C6_ComponentErrorReachesCaller ==
    FalhaEstruturada =>
        /\ resposta.tipo = "excecao"
        /\ resposta.exc.status_code = levantado.exc.status_code
        /\ \A campo \in DOMAIN levantado.exc.detail :
               /\ campo \in DOMAIN resposta.exc.detail
               /\ resposta.exc.detail[campo] = levantado.exc.detail[campo]

\* the steps of a request, in the order of the code
Ordem == <<"origem", "destino", "sanidade", "rota", "otimizar", "salvar">>

\* the n-th step has run
Executou(n) == Len(passos) >= n

\* C7: the steps run only in the order origin, destination, sanity check,
\* route, optimization, persist/return; nothing runs after a step that failed;
\* the sanity check passes exactly when the great-circle distance is at most
\* 2000 km, and only then is the route asked for; the optimizer runs only with
\* a route returned; a failed request has run neither the optimizer's later
\* steps nor the history write.
C7_StepsInOrderAndNothingAfterFailure ==
    /\ Len(passos) <= Len(Ordem)
    /\ \A i \in 1 .. Len(passos) : passos[i].passo = Ordem[i]
    /\ \A i \in 1 .. Len(passos) - 1 : passos[i].ok
    /\ (Executou(3) /\ distancia_direta # NoValue) =>
           (passos[3].ok <=> distancia_direta.centesimos_km <= 200000)
    /\ Executou(4) =>
           /\ distancia_direta # NoValue
           /\ distancia_direta.centesimos_km <= 200000
    /\ Executou(5) => rota_calculada # NoValue
    /\ Executou(5) /\ passos[5].ok => resultado # NoValue
    /\ pc = "falhou" =>
           /\ ~passos[Len(passos)].ok
           /\ passos[Len(passos)].passo # "salvar"
           /\ banco = << >>
           /\ (Len(passos) < 4 => rota_calculada = NoValue)
           /\ resultado = NoValue
           /\ resposta.tipo = "excecao"

\* a request whose great-circle distance is exactly 2000 km ran every step
C7_Witness ==
    /\ pc = "fim"
    /\ distancia_direta = [centesimos_km |-> 200000]
    /\ Len(passos) = 6
    /\ chave_api

\* the points are in use: the sanity check is about to read them, or a later
\* step has been reached, or the request failed in the sanity check or after
PontosEmUso ==
    \/ pc \in {"sanidade", "rota", "otimizar", "salvar", "fim"}
    \/ pc = "falhou" /\ Executou(3)

\* the geocode validation accepted the point: confidence at least 0.5 and
\* coordinates inside latitude [-35, 5], longitude [-75, -30]
C8_Accepted(g) ==
    /\ "confidence" \in DOMAIN g
    /\ g.confidence >= 50000
    /\ -35000000 <= g.latitude /\ g.latitude <= 5000000
    /\ -75000000 <= g.longitude /\ g.longitude <= -30000000

\* C8 as stated: every origin or destination point in use by the sanity
\* check, the router or the optimizer was accepted by the geocode validation.
C8_EveryPointInUseWasAccepted ==
    PontosEmUso => C8_Accepted(origem_geo) /\ C8_Accepted(destino_geo)

\* the provider geocoded the point: a key is configured and the request
\* brings no latitude (or latitude 0.0) for it
C8_GeocodedByProvider(modelo) ==
    chave_api /\ ("latitude" \notin DOMAIN modelo \/ modelo.latitude = 0)

\* C8, amended: a point in use that the provider geocoded was accepted by the
\* validation; a point taken from the request's own coordinates, or produced
\* without an API key, carries no confidence and is in use as it came.
C8_ProviderPointsInUseWereAccepted ==
    PontosEmUso =>
        /\ IF C8_GeocodedByProvider(pedido.rota.origem)
           THEN C8_Accepted(origem_geo)
           ELSE "confidence" \notin DOMAIN origem_geo
        /\ IF C8_GeocodedByProvider(pedido.rota.destino)
           THEN C8_Accepted(destino_geo)
           ELSE "confidence" \notin DOMAIN destino_geo

\* a request that ran to its end with an origin the provider geocoded and a
\* destination taken from the request's coordinates
C8_Witness ==
    /\ pc = "fim"
    /\ C8_GeocodedByProvider(pedido.rota.origem)
    /\ "confidence" \in DOMAIN origem_geo
    /\ ~C8_GeocodedByProvider(pedido.rota.destino)
    /\ "confidence" \notin DOMAIN destino_geo

-----------------------------------------------------------------------------
(* More claims about geocodificar_endereco, checked under SpecGeocodificar. *)

\* C11 as claimed: an address whose trimmed text has fewer than 5 characters
\* fails with the address-too-short error and returns no point, in every
\* configuration of the service.
C11_ShortAddressAlwaysRejected ==
    (GeocodingTerminou /\ geocoding.endereco.comprimento < 5) =>
        FalhouCom(geocoding.saida, 400, "invalid_address_format")

\* C11 as amended: with an API key configured, an address whose trimmed text
\* has fewer than 5 characters fails with the address-too-short error and
\* returns no point, and an address of 5 characters or more never fails with
\* that error; with no API key configured the call returns the fixed Sao Paulo
\* point for every address, short ones included.
C11_ShortAddressRejectedWithKey ==
    GeocodingTerminou =>
        /\ (chave_api /\ geocoding.endereco.comprimento < 5) =>
               /\ FalhouCom(geocoding.saida, 400, "invalid_address_format")
               /\ geocoding.saida.exc.detail.endereco_original = geocoding.endereco
        /\ (chave_api /\ geocoding.endereco.comprimento >= 5) =>
               ~FalhouCom(geocoding.saida, 400, "invalid_address_format")
        /\ ~chave_api =>
               /\ geocoding.saida.tipo = "retorno"
               /\ geocoding.saida.valor.latitude = -23550520
               /\ geocoding.saida.valor.longitude = -46633309
               /\ "confidence" \notin DOMAIN geocoding.saida.valor

\* with a key configured, a two-character address was rejected as too short
C11_Witness ==
    /\ GeocodingTerminou
    /\ chave_api
    /\ geocoding.endereco.comprimento = 2
    /\ FalhouCom(geocoding.saida, 400, "invalid_address_format")

\* the provider's best match was accepted
MatchAceito == TemMatch /\ geocoding.saida.tipo = "retorno"

MatchType == IF "match_type" \in DOMAIN MatchProps THEN MatchProps.match_type ELSE "unknown"

C12_Marker == " (localizacao aproximada)"

\* C12: for every accepted match the formatted address ends with the
\* approximate-location marker if and only if the confidence is in [0.5, 0.7)
\* or the match type is "fallback"; a match of confidence 0.9 and another
\* type is returned without the marker.
C12_MarkerIffLowQuality ==
    MatchAceito =>
        /\ geocoding.saida.valor.endereco_formatado.sufixo \in {C12_Marker, ""}
        /\ geocoding.saida.valor.endereco_formatado.sufixo = C12_Marker <=>
               \/ (50000 <= MatchConfidence /\ MatchConfidence < 70000)
               \/ MatchType = "fallback"

\* a match of confidence 0.9 and type "fallback" was returned with the marker
C12_Witness ==
    /\ MatchAceito
    /\ MatchConfidence = 90000
    /\ MatchType = "fallback"
    /\ geocoding.saida.valor.endereco_formatado.sufixo = C12_Marker

-----------------------------------------------------------------------------
(* Claims about MapaService.calcular_rota, checked under SpecRota.          *)

\* the call returned a route
RotaRetornada ==
    /\ roteamento # NoValue
    /\ "saida" \in DOMAIN roteamento
    /\ roteamento.saida.tipo = "retorno"

\* the call returned a route built from the provider's first route
RotaDoProvedor == RotaRetornada /\ roteamento.provedor # NoValue

RotaProvedor == roteamento.provedor.data.routes[1]

ResumoDistancia ==
    IF "summary" \in DOMAIN RotaProvedor /\ "distance" \in DOMAIN RotaProvedor.summary
    THEN RotaProvedor.summary.distance ELSE 0

ResumoDuracao ==
    IF "summary" \in DOMAIN RotaProvedor /\ "duration" \in DOMAIN RotaProvedor.summary
    THEN RotaProvedor.summary.duration ELSE 0

Segmentos == IF "segments" \in DOMAIN RotaProvedor THEN RotaProvedor.segments ELSE << >>

\* C13 as claimed: every route returned has tempo_estimado_horas = 0 when
\* distancia_km = 0, whatever the provider answered, and
\* velocidade_media_kmh = 0 whenever either of the two is 0.
C13_ZeroDistanceHasZeroDuration ==
    RotaRetornada =>
        LET rota == roteamento.saida.valor
        IN  /\ rota.distancia_km = 0 => rota.tempo_estimado_horas = 0
            /\ (rota.distancia_km = 0 \/ rota.tempo_estimado_horas = 0) =>
                   rota.velocidade_media_kmh = 0

\* C14 as claimed: with a zero or absent summary distance and segments of
\* positive distance, the distancia_km returned is non-zero and is the sum of
\* the segment distances in km; with summary distance and duration both
\* non-zero the summary values are used and the segments ignored.
C14_SegmentSumIsNonZero ==
    RotaDoProvedor =>
        LET rota == roteamento.saida.valor
        IN  /\ (ResumoDistancia = 0 /\ Soma(Segmentos, "distance") > 0) =>
                   /\ rota.distancia_km # 0
                   /\ rota.distancia_km = Round(Rat(Soma(Segmentos, "distance"), 1000), 1)
            /\ (ResumoDistancia # 0 /\ ResumoDuracao # 0) =>
                   /\ rota.distancia_km = Round(Rat(ResumoDistancia, 1000), 1)
                   /\ rota.tempo_estimado_horas = Round(Rat(ResumoDuracao, 3600), 2)

\* C14 as amended: with a zero or absent summary distance and segments of
\* positive distance, the distancia_km returned is the sum of the segment
\* distances in km rounded to one decimal, which is non-zero exactly when
\* the sum is 50 m or more, and the time returned is the sum of the segment
\* durations; with summary distance and duration both non-zero the summary
\* values are used and the segments ignored.
C14_SegmentSumRoundedToTenthOfKm ==
    RotaDoProvedor =>
        LET rota == roteamento.saida.valor
        IN  /\ (ResumoDistancia = 0 /\ Soma(Segmentos, "distance") > 0) =>
                   /\ rota.distancia_km = Round(Rat(Soma(Segmentos, "distance"), 1000), 1)
                   /\ rota.distancia_km # 0 <=> Soma(Segmentos, "distance") >= 50
                   /\ rota.tempo_estimado_horas =
                          IF Soma(Segmentos, "duration") > 0
                          THEN Round(Rat(Soma(Segmentos, "duration"), 3600), 2) ELSE 0
            /\ (ResumoDistancia # 0 /\ ResumoDuracao # 0) =>
                   /\ rota.distancia_km = Round(Rat(ResumoDistancia, 1000), 1)
                   /\ rota.tempo_estimado_horas = Round(Rat(ResumoDuracao, 3600), 2)

\* a route with summary distance 0, summary duration 600 s and segments of
\* 5000 m was returned as 5.0 km
C14_Witness ==
    /\ RotaDoProvedor
    /\ ResumoDistancia = 0
    /\ ResumoDuracao = 600
    /\ Soma(Segmentos, "distance") = 5000
    /\ roteamento.saida.valor.distancia_km = 50


-----------------------------------------------------------------------------
(* C15: the history write never decides the answer.                         *)

\* the request went through route and optimization and reached the write
EscritaTentada == pc = "fim" /\ Len(passos) = 6 /\ passos[6].passo = "salvar"

\* C15: once route calculation and optimization have succeeded, the answer of
\* otimizar_com_mapa is the optimization result, unchanged, whether the history
\* write went through or failed at connect, INSERT or commit; a failed write
\* never produces an error and leaves no row.
C15_ResultReturnedWhateverTheWrite ==
    EscritaTentada =>
        /\ resultado # NoValue
        /\ resposta = Retorno(resultado)
        /\ resultado.rota_info = RotaInfo(pedido, rota_calculada)
        /\ levantado = NoValue
        /\ passos[6].falha \in FalhasBanco
        /\ passos[6].ok <=> passos[6].falha = "nenhuma"
        /\ banco = IF passos[6].ok
                   THEN << LinhaBanco(pedido, rota_calculada, resultado) >>
                   ELSE << >>

\* a request answered with its result although the commit failed
C15_Witness ==
    /\ EscritaTentada
    /\ passos[6].falha = "commit"
    /\ banco = << >>
    /\ resposta.tipo = "retorno"
    /\ "velocidade_otima" \in DOMAIN resposta.valor

-----------------------------------------------------------------------------
(* C16: which perturbations the sensitivity list holds.                     *)

\* the sensitivity list of the returned analysis
ListaSensibilidade == resultado.analise.sensibilidade

\* the returned list holds an entry for the perturbation delta
TemEntrada(delta) ==
    \E i \in 1 .. Len(ListaSensibilidade) : ListaSensibilidade[i].variacao_velocidade = delta

\* the returned optimum plus delta, in tenths of km/h, lies inside the range
\* the result reports
PerturbadaNaFaixa(delta) ==
    LET v == resultado.velocidade_otima + 10 * delta
    IN  /\ 10 * resultado.cenario.faixa_velocidade[1] <= v
        /\ v <= 10 * resultado.cenario.faixa_velocidade[2]

\* C16: the sensitivity list holds an entry for delta in -10, -5, 5, 10
\* exactly when optimum + delta lies within [v_min, v_max]; an entry reports
\* the perturbed speed itself, never a clamped one, and the entries come in
\* the order of the deltas, one per delta.
C16_EntryIffPerturbedSpeedInRange ==
    Retornou =>
        /\ \A delta \in {-10, -5, 5, 10} : TemEntrada(delta) <=> PerturbadaNaFaixa(delta)
        /\ \A i \in 1 .. Len(ListaSensibilidade) :
               /\ ListaSensibilidade[i].variacao_velocidade \in {-10, -5, 5, 10}
               /\ ListaSensibilidade[i].nova_velocidade =
                      resultado.velocidade_otima
                      + 10 * ListaSensibilidade[i].variacao_velocidade
        /\ \A i \in 1 .. Len(ListaSensibilidade) - 1 :
               ListaSensibilidade[i].variacao_velocidade
               < ListaSensibilidade[i + 1].variacao_velocidade

\* an optimum at the top of its range: the two slower perturbations are
\* listed, the two faster ones are left out
C16_Witness ==
    /\ Retornou
    /\ resultado.velocidade_otima = 10 * resultado.cenario.faixa_velocidade[2]
    /\ TemEntrada(-10) /\ TemEntrada(-5)
    /\ ~TemEntrada(5) /\ ~TemEntrada(10)

-----------------------------------------------------------------------------
(* C17: the cost curve under a higher fuel price.                           *)

\* the prices above the one of the call made
PrecosMaiores == { p \in Precos : RGt(p, entrada.preco_combustivel) }

\* the curve otimizar_velocidade returns for the same arguments at price p
CurvaComPreco(p) ==
    OtimizarVelocidade([entrada EXCEPT !.preco_combustivel = p]).grafico_dados

\* the unrounded fuel cost of sample i rises by more than one cent from the
\* price of the call to the price p
SobeMaisDeUmCentavo(i, p) ==
    LET faixa == FaixaVelocidade(entrada.distancia_km)
        consumo_ajustado ==
            RMul(ConsumoBase(entrada.distancia_km, entrada.consumo_base_kmh),
                 FatorUrbano(Velocidade(faixa[1], faixa[2], i)))
    IN  RGt(RMul(consumo_ajustado, RSub(p, entrada.preco_combustivel)), Rat(1, 100))

-----------------------------------------------------------------------------
(* C18: the shape of the sampled cost for distances below 15 km.            *)

\* the unrounded total cost of sample i for the arguments of the call
CustoAmostrado(i) ==
    LET faixa == FaixaVelocidade(entrada.distancia_km)
    IN  PontoCusto(entrada, Velocidade(faixa[1], faixa[2], i)).custo_total

\* every sample costs less than the one before it
CustoEstritamenteDecrescente ==
    \A i \in 1 .. NumPontos - 1 : RGt(CustoAmostrado(i), CustoAmostrado(i + 1))

AbaixoDe15 == RLt(entrada.distancia_km, RInt(15))

-----------------------------------------------------------------------------
(* C19: the sign of the reported sensitivity.                               *)

\* C19: in every result for a positive distance and positive cost parameters,
\* no sensitivity entry reports a negative cost change: aumento_custo >= 0 and
\* aumento_percentual >= 0 for every perturbed speed listed.
C19_NoNegativeCostChange ==
    (Retornou /\ RGt(entrada.distancia_km, RInt(0))) =>
        \A i \in 1 .. Len(ListaSensibilidade) :
            /\ ListaSensibilidade[i].aumento_custo >= 0
            /\ ListaSensibilidade[i].aumento_percentual >= 0

-----------------------------------------------------------------------------
(* C20: what the numbers of a result depend on.                             *)

\* the numeric outcome of a result: optimum, minimal cost, savings, curve and
\* sensitivity
Numerico(res) ==
    [ velocidade_otima    |-> res.velocidade_otima,
      custo_total         |-> res.custo_total,
      economia_vs_40kmh   |-> res.economia_vs_40kmh,
      economia_percentual |-> res.economia_percentual,
      grafico_dados       |-> res.grafico_dados,
      ponto_otimo         |-> res.analise.ponto_otimo,
      sensibilidade       |-> res.analise.sensibilidade ]

\* a call of otimizar_velocidade that has the four values and differs from the
\* handler's call in way type, mass, stops and fuel level
SoQuatroValores(distancia_km, preco_combustivel, consumo_base_kmh, custo_motorista_hora) ==
    [ distancia_km         |-> distancia_km,
      massa_kg             |-> 2250,
      preco_combustivel    |-> preco_combustivel,
      consumo_base_kmh     |-> consumo_base_kmh,
      custo_motorista_hora |-> custo_motorista_hora,
      tipo_rota            |-> "rodoviaria",
      tipo_veiculo         |-> "fiorino",
      paradas              |-> 0,
      nivel_combustivel    |-> Rat(1, 2) ]

Otimizou == pc \in {"salvar", "fim"} /\ resultado # NoValue

\* C20: the numeric outcome of a request is the one otimizar_velocidade gives
\* for the route's distance, the fuel price, the vehicle type's base
\* consumption and the driver cost per hour alone: the route's way type, the
\* mass, the number of stops, the fuel level and the vehicle cost per hour do
\* not enter it; the route type of the scenario is always "urbana".
C20_OutcomeDependsOnFourValuesOnly ==
    Otimizou =>
        /\ Numerico(resultado) =
               Numerico(OtimizarVelocidade(
                   SoQuatroValores(Rat(rota_calculada.distancia_km, 10),
                                   pedido.preco_combustivel,
                                   ConsumoVeiculo(pedido.veiculo),
                                   pedido.custo_hora_motorista)))
        /\ resultado.cenario.tipo_rota = "urbana"

\* the heaviest vehicle, dearest per hour and nearly empty, on 10 km of
\* highway: the answer is the one of the 10 km example
C20_Witness ==
    /\ pc = "fim"
    /\ resultado # NoValue
    /\ pedido.massa = 3500
    /\ pedido.custo_hora_veiculo = RInt(50)
    /\ pedido.combustivel_inicial = Rat(1, 10)
    /\ pedido.veiculo = "fiorino"
    /\ rota_calculada.tipo_via_predominante = "interior"
    /\ rota_calculada.distancia_km = 100
    /\ resposta = Retorno(resultado)
    /\ resultado.velocidade_otima = 700
    /\ resultado.custo_total = 815

=============================================================================
